---- MODULE Spec2Model ----
(***************************************************************************)
(* Model of the dialogue engine of Nightfall (src/classes.py):             *)
(* RelationshipTracker, ChoiceTimer, DialogueSystem and GameManager.       *)
(*                                                                         *)
(* Python objects are records; an optional value (None or a value) is a    *)
(* sequence of length 0 or 1.  A method is an operator from the object's   *)
(* state before the call to its state after it; the actions at the end     *)
(* apply the methods to the variables.  A Python exception leaves the      *)
(* assignments made before the raise in place and sets the field raised.   *)
(* Time is counted in integer ticks.                                       *)
(***************************************************************************)
EXTENDS Integers, Sequences, FiniteSets, TLC

VARIABLES
    ds,        \* the DialogueSystem object (its fields, and the lines list it holds)
    score,     \* RelationshipTracker.score of the playthrough's tracker
    scenes,    \* GameManager.scenes: the Scene objects (id, dialogue, background_music)
    gm,        \* the GameManager object's own fields
    ev,        \* the last call made: operation, whether it raised, options applied
    timer,     \* a ChoiceTimer object driven on its own
    tm,        \* the last call on that timer, and what was fed since start()
    tr         \* the calls made on a tracker driven on its own: amounts added, last get_score()

vars == <<ds, score, scenes, gm, ev, timer, tm, tr>>

----------------------------------------------------------------------------
(* Bounds of the model *)

MaxDt == 2
MaxDuration == 3
MaxAcc == 6
MaxScore == 5
FontHeight == 1
MaxCalls == 3
MaxDelta == 2

(* Program constants *)

PosY == 500

----------------------------------------------------------------------------
(* Optional values *)

None == <<>>
Some(x) == <<x>>
IsNone(o) == o = <<>>
Val(o) == o[1]

----------------------------------------------------------------------------
(* Script entries: the dicts of a scene's "dialogue" list.  A key that is  *)
(* missing from the dict is "absent" where the code tests for the key and  *)
(* "" or 0 where the code reads it with a default.                         *)

Entry(type) ==
    [type |-> type, speaker |-> "", line |-> "", voice |-> "", choices |-> <<>>,
     hasTimer |-> FALSE, timer |-> 0, command |-> "absent", target |-> "", image |-> ""]

Line(speaker, text) == [Entry("line") EXCEPT !.speaker = speaker, !.line = text]
Narration(text) == [Entry("narration") EXCEPT !.line = text, !.voice = "voices/n1"]
Choice(options) == [Entry("choice") EXCEPT !.choices = options]
TimedChoice(options, d) == [Entry("choice") EXCEPT !.choices = options, !.hasTimer = TRUE, !.timer = d]
Command(cmd, who) == [Entry("absent") EXCEPT !.command = cmd, !.target = who]
ImageScreen(path) == [Entry("image_screen") EXCEPT !.image = path]
Unknown == Entry("future_feature")

Option(points) ==
    [points |-> points, target |-> "absent", target_positive |-> "absent",
     target_negative |-> "absent", branch |-> <<>>, lock_condition |-> ""]

\* line_data.get("type", "line")
LineType(e) == IF e.type = "absent" THEN "line" ELSE e.type

----------------------------------------------------------------------------
(* RelationshipTracker *)

\* RelationshipTracker.__init__: self.score = 0
RelationshipTracker == 0

\* Mutant: the score is kept within -3..3
add_Clamped(s, amount) ==
    IF s + amount > 3 THEN 3 ELSE IF s + amount < 0 - 3 THEN 0 - 3 ELSE s + amount

\* RelationshipTracker.add
add(s, amount) == s + amount

\* RelationshipTracker.get_score
get_score(s) == s

\* The class defines add and get_score only: a call of relationship.get()
\* raises AttributeError.
TrackerHasGet == FALSE

----------------------------------------------------------------------------
(* ChoiceTimer *)

ChoiceTimer(duration) == [duration |-> duration, time_left |-> duration, active |-> FALSE]

ChoiceTimer_start(t) == [t EXCEPT !.time_left = t.duration, !.active = TRUE]

\* Mutant: expiry only once the time left is below zero
ChoiceTimer_update_Strict(t, dt) ==
    IF t.active
    THEN LET left == t.time_left - dt IN
         IF left < 0
         THEN [t |-> [t EXCEPT !.time_left = left, !.active = FALSE], ret |-> TRUE]
         ELSE [t |-> [t EXCEPT !.time_left = left], ret |-> FALSE]
    ELSE [t |-> t, ret |-> FALSE]

\* Mutant: the expired timer is left running
ChoiceTimer_update_StaysActive(t, dt) ==
    IF t.active
    THEN LET left == t.time_left - dt IN
         [t |-> [t EXCEPT !.time_left = left], ret |-> left <= 0]
    ELSE [t |-> t, ret |-> FALSE]

\* Mutant: update without its "if not self.active: return False"
ChoiceTimer_update_Unguarded(t, dt) ==
    LET left == t.time_left - dt IN
    IF left <= 0
    THEN [t |-> [t EXCEPT !.time_left = left, !.active = FALSE], ret |-> TRUE]
    ELSE [t |-> [t EXCEPT !.time_left = left], ret |-> FALSE]

\* The timer after update(dt), and what update returned.
ChoiceTimer_update(t, dt) ==
    IF t.active
    THEN LET left == t.time_left - dt IN
         IF left <= 0
         THEN [t |-> [t EXCEPT !.time_left = left, !.active = FALSE], ret |-> TRUE]
         ELSE [t |-> [t EXCEPT !.time_left = left], ret |-> FALSE]
    ELSE [t |-> t, ret |-> FALSE]

ChoiceTimer_reset(t) == [t EXCEPT !.time_left = t.duration, !.active = FALSE]

get_remaining(t) == IF t.time_left > 0 THEN t.time_left ELSE 0

----------------------------------------------------------------------------
(* DialogueSystem.  A method takes and returns the "world" w the call can   *)
(* touch: the object's fields, the tracker's score, and the call's frame    *)
(* (ret: the value returned, raised: the exception that ended the call,     *)
(* applied: the option indexes whose consequences apply_choice started).    *)

Names == {"Player", "Partner"}

\* DialogueSystem.__init__
DialogueSystem(dialogue_lines, relationship_tracker, choice_timer_class) ==
    [dialogue_lines |-> dialogue_lines,
     index |-> 0,
     current_voice |-> "",
     waiting |-> FALSE,
     current_line |-> None,
     relationship |-> relationship_tracker,
     ChoiceTimerClass |-> choice_timer_class,
     choice_timer |-> None,
     selected_choice |-> None,
     name_map |-> [Player |-> "Player", Partner |-> "Partner"],
     visible_characters |-> None,
     image_screen_active |-> FALSE,
     image_screen_surface |-> None]

DSFields == DOMAIN DialogueSystem(<<>>, FALSE, FALSE)

\* "name" in text, for the texts the scripts use
Contains(text, name) ==
    \/ name = "Vera" /\ text \in {"I am Vera.", "Vera and Ellie"}
    \/ name = "Ellie" /\ text \in {"Call me Ellie.", "Vera and Ellie"}

check_name_reveal(w, line_data) ==
    LET w1 == IF line_data.speaker = "Player" /\ Contains(line_data.line, "Vera")
              THEN [w EXCEPT !.name_map.Player = "Vera"] ELSE w
    IN IF line_data.speaker = "Partner" /\ Contains(line_data.line, "Ellie")
       THEN [w1 EXCEPT !.name_map.Partner = "Ellie"] ELSE w1

\* pygame.image.load(path).convert_alpha() inside try/except: the surface, or None
LoadImage(path) == IF path = "assets/missing.png" THEN None ELSE Some(path)

start_line(w) ==
    IF w.index >= Len(w.dialogue_lines)
    THEN [w EXCEPT !.current_line = None, !.ret = None]
    ELSE LET line_data == w.dialogue_lines[w.index + 1]
             w1 == check_name_reveal([w EXCEPT !.current_line = Some(line_data)], line_data)
             line_type == LineType(line_data)
             r == [w1 EXCEPT !.ret = Some(line_data)]
         IN CASE line_type \in {"line", "narration"} ->
                   [r EXCEPT !.current_voice = IF line_data.voice # "" THEN line_data.voice ELSE @,
                             !.waiting = TRUE]
              [] line_type = "choice" ->
                   [r EXCEPT !.choice_timer =
                                 IF line_data.hasTimer /\ w.ChoiceTimerClass
                                 THEN Some(ChoiceTimer_start(ChoiceTimer(line_data.timer)))
                                 ELSE @,
                             !.waiting = TRUE,
                             !.selected_choice = None]
              [] line_type = "image_screen" ->
                   [r EXCEPT !.image_screen_active = TRUE,
                             !.image_screen_surface =
                                 IF line_data.image # "" THEN LoadImage(line_data.image) ELSE @,
                             !.waiting = TRUE]
              [] OTHER -> r

\* list.insert(pos, x): x lands at 0-based position pos, or at the end when pos > len
ListInsert(lines, pos, x) ==
    LET p == IF pos > Len(lines) THEN Len(lines) ELSE pos
    IN SubSeq(lines, 1, p) \o <<x>> \o SubSeq(lines, p + 1, Len(lines))

insert_scene_jump(w, scene_id) ==
    [w EXCEPT !.dialogue_lines =
        ListInsert(@, w.index + 1, [Entry("scene_jump") EXCEPT !.target = scene_id])]

\* Mutant: every branch entry is inserted at insert_pos, which reverses the branch
RECURSIVE InsertBranch_SamePos(_, _, _, _)
InsertBranch_SamePos(lines, insert_pos, branch, i) ==
    IF i >= Len(branch) THEN lines
    ELSE InsertBranch_SamePos(ListInsert(lines, insert_pos, branch[i + 1]), insert_pos, branch, i + 1)

\* for i, entry in enumerate(branch): dialogue_lines.insert(insert_pos + i, entry)
RECURSIVE InsertBranch(_, _, _, _)
InsertBranch(lines, insert_pos, branch, i) ==
    IF i >= Len(branch) THEN lines
    ELSE InsertBranch(ListInsert(lines, insert_pos + i, branch[i + 1]), insert_pos, branch, i + 1)

\* choices[choice_index] once choice_index < len(choices): a negative index
\* counts from the end, below -len it is an IndexError
ListIndex(choices, choice_index) ==
    IF choice_index >= 0 THEN choice_index + 1 ELSE Len(choices) + choice_index + 1

\* Mutant: the inline branch is looked at before the targets
apply_choice_BranchFirst(w, choice_index) ==
    LET choices == Val(w.current_line).choices IN
    IF choice_index >= Len(choices) THEN w
    ELSE IF choice_index < 0 - Len(choices) THEN [w EXCEPT !.raised = "IndexError"]
    ELSE
      LET choice == choices[ListIndex(choices, choice_index)]
          points == choice.points
          w1 == [w EXCEPT !.applied = Append(@, ListIndex(choices, choice_index) - 1),
                          !.score = IF w.relationship THEN add(@, points) ELSE @]
      IN IF w.relationship /\ ~TrackerHasGet THEN [w1 EXCEPT !.raised = "AttributeError"]
         ELSE
           LET rel_value == IF w.relationship THEN get_score(w1.score) ELSE 0 IN
           IF choice.branch # <<>>
           THEN [w1 EXCEPT !.dialogue_lines = InsertBranch(@, w.index + 1, choice.branch, 0)]
           ELSE IF choice.target # "absent" THEN insert_scene_jump(w1, choice.target)
           ELSE IF choice.target_positive # "absent" /\ choice.target_negative # "absent"
           THEN IF rel_value >= 0
                THEN insert_scene_jump(w1, choice.target_positive)
                ELSE insert_scene_jump(w1, choice.target_negative)
           ELSE w1

apply_choice(w, choice_index) ==
    LET choices == Val(w.current_line).choices IN
    IF choice_index >= Len(choices) THEN w
    ELSE IF choice_index < 0 - Len(choices) THEN [w EXCEPT !.raised = "IndexError"]
    ELSE
      LET choice == choices[ListIndex(choices, choice_index)]
          points == choice.points
          w1 == [w EXCEPT !.applied = Append(@, ListIndex(choices, choice_index) - 1),
                          !.score = IF w.relationship THEN add(@, points) ELSE @]
      IN IF w.relationship /\ ~TrackerHasGet THEN [w1 EXCEPT !.raised = "AttributeError"]
         ELSE
           LET rel_value == IF w.relationship THEN get_score(w1.score) ELSE 0 IN
           IF choice.target # "absent" THEN insert_scene_jump(w1, choice.target)
           ELSE IF choice.target_positive # "absent" /\ choice.target_negative # "absent"
           THEN IF rel_value >= 0
                THEN insert_scene_jump(w1, choice.target_positive)
                ELSE insert_scene_jump(w1, choice.target_negative)
           ELSE IF choice.branch # <<>>
           THEN [w1 EXCEPT !.dialogue_lines = InsertBranch(@, w.index + 1, choice.branch, 0)]
           ELSE w1

click_choice(w, choice_index) ==
    IF ~IsNone(w.current_line) /\ Val(w.current_line).type = "choice"
    THEN LET w1 == apply_choice([w EXCEPT !.selected_choice = Some(choice_index)], choice_index)
         IN IF w1.raised # "" THEN w1
            ELSE start_line([w1 EXCEPT !.choice_timer = None, !.index = @ + 1])
    ELSE [w EXCEPT !.ret = None]

\* Mutant: an image screen is dismissed by the next update
update_DismissesImage(w, dt, busy) ==
    IF IsNone(w.current_line) THEN [w EXCEPT !.ret = None]
    ELSE
      LET line_type == LineType(Val(w.current_line)) IN
      IF line_type \in {"line", "narration"} /\ w.waiting /\ ~busy
      THEN start_line([w EXCEPT !.waiting = FALSE, !.index = @ + 1])
      ELSE IF line_type = "choice" /\ ~IsNone(w.choice_timer)
      THEN LET r == ChoiceTimer_update(Val(w.choice_timer), dt)
               w1 == [w EXCEPT !.choice_timer = Some(r.t)]
           IN IF r.ret
              THEN LET w2 == IF IsNone(w1.selected_choice)
                             THEN apply_choice([w1 EXCEPT !.selected_choice = Some(0)], 0)
                             ELSE w1
                   IN IF w2.raised # "" THEN w2
                      ELSE start_line([w2 EXCEPT !.choice_timer = None, !.index = @ + 1])
              ELSE [w1 EXCEPT !.ret = None]
      ELSE IF line_type = "image_screen" /\ w.image_screen_active
      THEN start_line([w EXCEPT !.image_screen_active = FALSE,
                                !.image_screen_surface = None,
                                !.index = @ + 1])
      ELSE [w EXCEPT !.ret = None]

\* Mutant: a line or narration is advanced without asking the mixer
update_IgnoresBusy(w, dt, busy) ==
    IF IsNone(w.current_line) THEN [w EXCEPT !.ret = None]
    ELSE
      LET line_type == LineType(Val(w.current_line)) IN
      IF line_type \in {"line", "narration"} /\ w.waiting
      THEN start_line([w EXCEPT !.waiting = FALSE, !.index = @ + 1])
      ELSE IF line_type = "choice" /\ ~IsNone(w.choice_timer)
      THEN LET r == ChoiceTimer_update(Val(w.choice_timer), dt)
               w1 == [w EXCEPT !.choice_timer = Some(r.t)]
           IN IF r.ret
              THEN LET w2 == IF IsNone(w1.selected_choice)
                             THEN apply_choice([w1 EXCEPT !.selected_choice = Some(0)], 0)
                             ELSE w1
                   IN IF w2.raised # "" THEN w2
                      ELSE start_line([w2 EXCEPT !.choice_timer = None, !.index = @ + 1])
              ELSE [w1 EXCEPT !.ret = None]
      ELSE [w EXCEPT !.ret = None]

update(w, dt, busy) ==
    IF IsNone(w.current_line) THEN [w EXCEPT !.ret = None]
    ELSE
      LET line_type == LineType(Val(w.current_line)) IN
      IF line_type \in {"line", "narration"} /\ w.waiting /\ ~busy
      THEN start_line([w EXCEPT !.waiting = FALSE, !.index = @ + 1])
      ELSE IF line_type = "choice" /\ ~IsNone(w.choice_timer)
      THEN LET r == ChoiceTimer_update(Val(w.choice_timer), dt)
               w1 == [w EXCEPT !.choice_timer = Some(r.t)]
           IN IF r.ret
              THEN LET w2 == IF IsNone(w1.selected_choice)
                             THEN apply_choice([w1 EXCEPT !.selected_choice = Some(0)], 0)
                             ELSE w1
                   IN IF w2.raised # "" THEN w2
                      ELSE start_line([w2 EXCEPT !.choice_timer = None, !.index = @ + 1])
              ELSE [w1 EXCEPT !.ret = None]
      ELSE [w EXCEPT !.ret = None]

\* eval(condition.replace("relationship", str(rel))), for the conditions the
\* scripts use: the value, or raised when the text is no Python expression
\* ("relationship <" becomes "0 <", a SyntaxError)
eval(condition, rel) ==
    CASE condition = "relationship < 0" -> [raised |-> FALSE, value |-> rel < 0]
      [] condition = "relationship >= 0" -> [raised |-> FALSE, value |-> rel >= 0]
      [] condition = "relationship > 3" -> [raised |-> FALSE, value |-> rel > 3]
      [] condition = "relationship <" -> [raised |-> TRUE, value |-> FALSE]
      [] OTHER -> [raised |-> TRUE, value |-> FALSE]

\* Mutant: a condition that cannot be evaluated locks the option
evaluate_condition_FailClosed(condition, rel) ==
    LET r == eval(condition, rel) IN IF r.raised THEN TRUE ELSE r.value

\* try: return eval(condition)  except: return False
evaluate_condition(condition, rel) ==
    LET r == eval(condition, rel) IN IF r.raised THEN FALSE ELSE r.value

\* Twice the top of option i's row: y_start + i * (font.get_height() * 1.5)
RowTop2(i) == 2 * PosY + i * 3 * FontHeight

\* The first option whose row holds mouse_y (both edges included), or None
HitRow(choices, mouse_y) ==
    LET hits == {i \in 0..(Len(choices) - 1) :
                    RowTop2(i) <= 2 * mouse_y /\ 2 * mouse_y <= RowTop2(i + 1)}
    IN IF hits = {} THEN None ELSE Some(CHOOSE i \in hits : \A j \in hits : i <= j)

handle_click(w, mouse_y) ==
    IF IsNone(w.current_line) \/ Val(w.current_line).type # "choice"
    THEN [w EXCEPT !.ret = None]
    ELSE IF w.relationship /\ ~TrackerHasGet THEN [w EXCEPT !.raised = "AttributeError"]
    ELSE
      LET choices == Val(w.current_line).choices
          rel_value == IF w.relationship THEN get_score(w.score) ELSE 0
          hit == HitRow(choices, mouse_y)
      IN IF IsNone(hit) THEN [w EXCEPT !.ret = None]
         ELSE LET condition == choices[Val(hit) + 1].lock_condition
                  locked == IF condition # "" THEN evaluate_condition(condition, rel_value) ELSE FALSE
              IN IF locked THEN [w EXCEPT !.ret = None] ELSE click_choice(w, Val(hit))

\* Mutant: click without its "if not self.current_line: return None"
click_Unguarded(w, mouse_pos) ==
    IF w.image_screen_active
    THEN start_line([w EXCEPT !.image_screen_active = FALSE,
                              !.image_screen_surface = None,
                              !.index = @ + 1])
    ELSE IF ~IsNone(w.current_line) /\ LineType(Val(w.current_line)) = "choice" /\ ~IsNone(mouse_pos)
    THEN handle_click(w, Val(mouse_pos))
    ELSE start_line([w EXCEPT !.index = @ + 1])

\* Mutant: click without its image-screen branch
click_NoImageBranch(w, mouse_pos) ==
    IF IsNone(w.current_line) THEN [w EXCEPT !.ret = None]
    ELSE IF LineType(Val(w.current_line)) = "choice" /\ ~IsNone(mouse_pos)
    THEN handle_click(w, Val(mouse_pos))
    ELSE start_line([w EXCEPT !.index = @ + 1])

\* mouse_pos is None, or the y of the position clicked
click(w, mouse_pos) ==
    IF IsNone(w.current_line) THEN [w EXCEPT !.ret = None]
    ELSE IF w.image_screen_active
    THEN start_line([w EXCEPT !.image_screen_active = FALSE,
                              !.image_screen_surface = None,
                              !.index = @ + 1])
    ELSE IF LineType(Val(w.current_line)) = "choice" /\ ~IsNone(mouse_pos)
    THEN handle_click(w, Val(mouse_pos))
    ELSE start_line([w EXCEPT !.index = @ + 1])

\* Mutant: draw moves the cursor past a command without entering the next entry
draw_NoReenter(w) ==
    IF IsNone(w.current_line) THEN [w EXCEPT !.ret = None]
    ELSE
      LET w1 == IF IsNone(w.visible_characters)
                THEN [w EXCEPT !.visible_characters = Some([n \in Names |-> TRUE])]
                ELSE w
          cur == Val(w.current_line)
      IN IF w1.image_screen_active THEN [w1 EXCEPT !.ret = None]
         ELSE IF cur.command # "absent"
         THEN LET w2 == IF cur.command # "" /\ cur.target # ""
                        THEN IF cur.command = "hide"
                             THEN [w1 EXCEPT !.visible_characters = Some([Val(@) EXCEPT ![cur.target] = FALSE])]
                             ELSE IF cur.command = "show"
                             THEN [w1 EXCEPT !.visible_characters = Some([Val(@) EXCEPT ![cur.target] = TRUE])]
                             ELSE w1
                        ELSE w1
              IN [w2 EXCEPT !.index = @ + 1, !.ret = None]
         ELSE [w1 EXCEPT !.ret = None]

\* The state changes of draw (what it blits is not modelled); draw returns None
draw(w) ==
    IF IsNone(w.current_line) THEN [w EXCEPT !.ret = None]
    ELSE
      LET w1 == IF IsNone(w.visible_characters)
                THEN [w EXCEPT !.visible_characters = Some([n \in Names |-> TRUE])]
                ELSE w
          cur == Val(w.current_line)
      IN IF w1.image_screen_active THEN [w1 EXCEPT !.ret = None]
         ELSE IF cur.command # "absent"
         THEN LET w2 == IF cur.command # "" /\ cur.target # ""
                        THEN IF cur.command = "hide"
                             THEN [w1 EXCEPT !.visible_characters = Some([Val(@) EXCEPT ![cur.target] = FALSE])]
                             ELSE IF cur.command = "show"
                             THEN [w1 EXCEPT !.visible_characters = Some([Val(@) EXCEPT ![cur.target] = TRUE])]
                             ELSE w1
                        ELSE w1
              IN [start_line([w2 EXCEPT !.index = @ + 1]) EXCEPT !.ret = None]
         ELSE [w1 EXCEPT !.ret = None]

----------------------------------------------------------------------------
(* The heap.  A DialogueSystem keeps the list object it was given          *)
(* (self.dialogue_lines = dialogue_lines, no copy): ds.dialogue_lines is   *)
(* the number of the Scene whose dialogue list it is, and a call works on  *)
(* that list's contents.                                                   *)

Lines == scenes[ds.dialogue_lines].dialogue

Frame == [ret |-> None, raised |-> "", applied |-> <<>>]

\* The world of a call on the DialogueSystem ds
World ==
    [f \in DSFields |-> IF f = "dialogue_lines" THEN Lines ELSE ds[f]]
        @@ [ref |-> ds.dialogue_lines, score |-> score] @@ Frame

\* The object, the heap and the tracker after a call that ended in world w
DSOf(w) == [f \in DSFields |-> IF f = "dialogue_lines" THEN w.ref ELSE w[f]]
HeapOf(heap, w) == [heap EXCEPT ![w.ref].dialogue = w.dialogue_lines]
EvOf(op, arg, w) == [op |-> op, arg |-> arg, raised |-> w.raised, applied |-> w.applied]

\* The world of a DialogueSystem just constructed on scene k's list
NewWorld(heap, k, relationship_tracker, choice_timer_class, s) ==
    DialogueSystem(heap[k].dialogue, relationship_tracker, choice_timer_class)
        @@ [ref |-> k, score |-> s] @@ Frame

----------------------------------------------------------------------------
(* GameManager.  G is what a call can touch: the manager's fields (gm),    *)
(* the scenes (heap) and the world w of its current DialogueSystem.        *)

Scene(id, dialogue, background_music) ==
    [id |-> id, dialogue |-> dialogue, background_music |-> background_music]

\* pygame.mixer.music.load(path) inside try/except: whether it succeeds
MusicLoads(path) == path # "music/missing.ogg"

play_scene_music(G) ==
    LET music == G.heap[G.gm.current_scene].background_music IN
    IF music # "" /\ Some(music) # G.gm.current_music /\ MusicLoads(music)
    THEN [G EXCEPT !.gm.current_music = Some(music)]
    ELSE G

\* GameManager.__init__: the DialogueSystem gets neither the tracker nor a timer class
GameManager(heap, s) ==
    LET w == start_line(NewWorld(heap, 1, FALSE, FALSE, s)) IN
    [gm |-> [current_scene_index |-> 0,
             current_scene |-> 1,
             current_line |-> w.ret,
             active |-> TRUE,
             current_music |-> None],
     heap |-> heap,
     w |-> w]

next_scene(G) ==
    LET i == G.gm.current_scene_index + 1
        G1 == [G EXCEPT !.gm.current_scene_index = i, !.heap = HeapOf(@, G.w)]
    IN IF i >= Len(G.heap) THEN [G1 EXCEPT !.gm.active = FALSE]
       ELSE LET w == start_line([NewWorld(G1.heap, i + 1, FALSE, FALSE, G.w.score)
                                    EXCEPT !.applied = G.w.applied])
            IN play_scene_music([G1 EXCEPT !.gm.current_scene = i + 1,
                                           !.w = w,
                                           !.gm.current_line = w.ret])

\* Mutant: the manager stores whatever the call returned, None included
Keep_AlwaysStore(G, w) ==
    [G EXCEPT !.w = w,
              !.gm.current_line = IF w.raised = "" THEN w.ret ELSE @]

\* if new_line: self.current_line = new_line
Keep(G, w) ==
    [G EXCEPT !.w = w,
              !.gm.current_line = IF w.raised = "" /\ ~IsNone(w.ret) THEN w.ret ELSE @]

\* Mutant: update without its "if not self.active: return"
GM_update_Unguarded(G, dt, busy) ==
    LET G1 == IF IsNone(G.gm.current_line) THEN next_scene(G) ELSE G
    IN Keep(G1, update([G1.w EXCEPT !.ret = None], dt, busy))

\* (G1, the manager after the call of next_scene if there is one, is bound
\* through a set so that it is computed once.)
GM_update(G, dt, busy) ==
    IF ~G.gm.active THEN G
    ELSE LET rest(G1) == Keep(G1, update([G1.w EXCEPT !.ret = None], dt, busy))
         IN CHOOSE r \in {rest(G1) : G1 \in {IF IsNone(G.gm.current_line) THEN next_scene(G) ELSE G}} : TRUE

GM_draw(G) == [G EXCEPT !.w = draw(G.w)]

\* event: None for an event that is no MOUSEBUTTONDOWN, else the y of event.pos
handle_event(G, event) ==
    IF IsNone(event) THEN G ELSE Keep(G, click(G.w, event))

----------------------------------------------------------------------------
(* The scripts the model runs *)

OptA == [Option(5) EXCEPT !.target = "sceneB"]
OptB == [Option(0 - 5) EXCEPT !.target = "sceneC"]
OptBranch == [Option(1) EXCEPT !.branch = <<Line("Partner", "b1"), Line("Player", "b2")>>]
OptSorry == [Option(0 - 2) EXCEPT !.target_positive = "scene_good", !.target_negative = "scene_bad",
                                  !.lock_condition = "relationship < 0"]
OptBoth == [Option(1) EXCEPT !.target = "sceneD", !.target_positive = "scene_good",
                                 !.target_negative = "scene_bad",
                                 !.branch = <<Line("Partner", "b4")>>]
OptPlain == Option(0)
OptLocked == [Option(3) EXCEPT !.lock_condition = "relationship >= 0",
                               !.branch = <<Command("show", "Partner")>>]
OptMalformed == [Option(2) EXCEPT !.lock_condition = "relationship <",
                                  !.branch = <<Line("Partner", "b3")>>]

\* The end-to-end scenario: a narration, then a choice between two scenes
\* (and a third option that has every kind of outcome at once)
ScriptA == <<Narration("Hello"), Choice(<<OptA, OptB, OptBoth>>)>>

\* A name reveal, a timed choice, an entry of an unknown type, a closing line
ScriptB == <<Line("Player", "I am Vera."), TimedChoice(<<OptBranch, OptSorry>>, 2),
             Unknown, Line("Partner", "Call me Ellie.")>>

\* A command, an image screen, an untimed choice with locked options
ScriptC == <<Command("hide", "Partner"), ImageScreen("assets/img.png"),
             Choice(<<OptPlain, OptLocked, OptMalformed>>), Line("", "bye")>>

Scripts == {ScriptA, ScriptB, ScriptC}

\* The longest list of options in the scripts
MaxOptions == Len(ScriptC[3].choices)

SceneLists ==
    { <<Scene("sceneA", ScriptA, "music/a.ogg"), Scene("sceneB", ScriptB, "music/b.ogg"),
        Scene("sceneC", ScriptC, "music/b.ogg")>>,
      <<Scene("intro", <<>>, "music/a.ogg"), Scene("blank", <<>>, ""),
        Scene("sceneC", ScriptC, "music/b.ogg")>>,
      <<Scene("intro", <<>>, "music/missing.ogg"), Scene("end", <<>>, "music/a.ogg")>>,
      <<Scene("intro", <<>>, "music/a.ogg"), Scene("sceneB", ScriptB, "music/a.ogg"),
        Scene("sceneC", ScriptC, "music/b.ogg")>> }

Dts == 0..MaxDt
\* Clicks above the first row, on and next to every row edge, and below the last row
MouseYs ==
    {PosY - 1} \cup {RowTop2(i) \div 2 : i \in 0..MaxOptions}
               \cup {(RowTop2(i) + 1) \div 2 : i \in 0..MaxOptions}
               \cup {RowTop2(MaxOptions) \div 2 + 1}
\* Indexes below -len(choices), negative ones that count from the end, valid ones, len(choices)
ChoiceIndexes == (0 - MaxOptions)..MaxOptions

IdleGM == [current_scene_index |-> 0, current_scene |-> 1, current_line |-> None,
           active |-> FALSE, current_music |-> None]
IdleTimer == ChoiceTimer(0)
IdleTm == [op |-> "none", ret |-> FALSE, acc |-> 0, fired |-> 0, phase |-> "new"]
IdleEv == [op |-> "init", arg |-> 0, raised |-> "", applied |-> <<>>]
IdleTr == [added |-> <<>>, got |-> None]

----------------------------------------------------------------------------
(* A DialogueSystem driven directly: constructed on a script, with or      *)
(* without a RelationshipTracker and a choice-timer class, then any        *)
(* sequence of its public methods.                                         *)

InitDS ==
    /\ \E script \in Scripts : scenes = <<Scene("scene", script, "")>>
    /\ \E rel \in BOOLEAN, tc \in BOOLEAN :
          ds = DSOf(NewWorld(scenes, 1, rel, tc, 0))
    /\ score = 0
    /\ gm = IdleGM
    /\ ev = IdleEv
    /\ timer = IdleTimer
    /\ tm = IdleTm
    /\ tr = IdleTr

\* The state after a DialogueSystem call that ended in world w.  (The actions
\* bind the world with \E w \in {...}, which makes TLC compute it once.)
DSCommit(op, arg, w) ==
    /\ w.score <= MaxScore /\ w.score >= 0 - MaxScore
    /\ ds' = DSOf(w)
    /\ scenes' = HeapOf(scenes, w)
    /\ score' = w.score
    /\ ev' = EvOf(op, arg, w)
    /\ UNCHANGED <<gm, timer, tm, tr>>

DSStartLine == \E w \in {start_line(World)} : DSCommit("start_line", 0, w)

DSUpdate ==
    \E dt \in Dts, busy \in BOOLEAN :
       \E w \in {update(World, dt, busy)} : DSCommit("update", dt, w)

DSClick == \E y \in MouseYs : \E w \in {click(World, Some(y))} : DSCommit("click", y, w)

DSClickNoPos == \E w \in {click(World, None)} : DSCommit("click", 0, w)

DSClickChoice ==
    \E i \in ChoiceIndexes : \E w \in {click_choice(World, i)} : DSCommit("click_choice", i, w)

DSHandleClick ==
    \E y \in MouseYs : \E w \in {handle_click(World, y)} : DSCommit("handle_click", y, w)

DSDraw == \E w \in {draw(World)} : DSCommit("draw", 0, w)

NextDS ==
    \/ DSStartLine
    \/ DSUpdate
    \/ DSClick
    \/ DSClickNoPos
    \/ DSClickChoice
    \/ DSHandleClick
    \/ DSDraw

SpecDS == InitDS /\ [][NextDS]_vars

----------------------------------------------------------------------------
(* The game: a GameManager constructed on a list of scenes with the        *)
(* playthrough's tracker, then the calls of the frame loop.                *)

GWorld == [gm |-> gm, heap |-> scenes, w |-> World]

InitGM ==
    \E list \in SceneLists :
       LET G == GameManager(list, 0) IN
       /\ scenes = G.heap
       /\ ds = DSOf(G.w)
       /\ score = 0
       /\ gm = G.gm
       /\ ev = IdleEv
       /\ timer = IdleTimer
       /\ tm = IdleTm
       /\ tr = IdleTr

GMCommit(op, arg, G) ==
    /\ ds' = DSOf(G.w)
    /\ scenes' = HeapOf(G.heap, G.w)
    /\ score' = G.w.score
    /\ gm' = G.gm
    /\ ev' = EvOf(op, arg, G.w)
    /\ UNCHANGED <<timer, tm, tr>>

GMUpdate ==
    \E dt \in Dts, busy \in BOOLEAN :
       \E G \in {GM_update(GWorld, dt, busy)} : GMCommit("update", dt, G)

GMDraw == \E G \in {GM_draw(GWorld)} : GMCommit("draw", 0, G)

GMClick == \E y \in MouseYs : \E G \in {handle_event(GWorld, Some(y))} : GMCommit("click", y, G)

GMOtherEvent == \E G \in {handle_event(GWorld, None)} : GMCommit("event", 0, G)

NextGM ==
    \/ GMUpdate
    \/ GMDraw
    \/ GMClick
    \/ GMOtherEvent

SpecGM == InitGM /\ [][NextGM]_vars

\* The frame loop calls update once per frame, for ever
SpecGMFair == SpecGM /\ WF_vars(GMUpdate)

----------------------------------------------------------------------------
(* A ChoiceTimer driven directly.  tm records the last call and its        *)
(* result, the dt fed and the expiries reported since the last start().    *)

InitTimer ==
    /\ \E d \in 1..MaxDuration : timer = ChoiceTimer(d)
    /\ tm = IdleTm
    /\ scenes = <<Scene("scene", <<>>, "")>>
    /\ ds = DSOf(NewWorld(scenes, 1, FALSE, FALSE, 0))
    /\ score = 0
    /\ gm = IdleGM
    /\ ev = IdleEv
    /\ tr = IdleTr

TStart ==
    /\ timer' = ChoiceTimer_start(timer)
    /\ tm' = [op |-> "start", ret |-> FALSE, acc |-> 0, fired |-> 0, phase |-> "started"]
    /\ UNCHANGED <<ds, score, scenes, gm, ev, tr>>

TUpdate ==
    \E dt \in Dts :
       LET r == ChoiceTimer_update(timer, dt) IN
       /\ tm.acc + dt <= MaxAcc
       /\ timer' = r.t
       /\ tm' = [tm EXCEPT !.op = "update", !.ret = r.ret, !.acc = @ + dt,
                           !.fired = IF r.ret THEN @ + 1 ELSE @]
       /\ UNCHANGED <<ds, score, scenes, gm, ev, tr>>

TReset ==
    /\ timer' = ChoiceTimer_reset(timer)
    /\ tm' = [tm EXCEPT !.op = "reset", !.ret = FALSE, !.phase = "reset"]
    /\ UNCHANGED <<ds, score, scenes, gm, ev, tr>>

NextTimer ==
    \/ TStart
    \/ TUpdate
    \/ TReset

SpecTimer == InitTimer /\ [][NextTimer]_vars

----------------------------------------------------------------------------
(* A RelationshipTracker driven directly: constructed, then any sequence   *)
(* of add(amount) and get_score() calls.  tr records the amounts added     *)
(* and what the last get_score() since then returned.                      *)

Deltas == (0 - MaxDelta)..MaxDelta

InitTracker ==
    /\ score = RelationshipTracker
    /\ tr = IdleTr
    /\ scenes = <<Scene("scene", <<>>, "")>>
    /\ ds = DSOf(NewWorld(scenes, 1, FALSE, FALSE, 0))
    /\ gm = IdleGM
    /\ ev = IdleEv
    /\ timer = IdleTimer
    /\ tm = IdleTm

TAdd ==
    \E amount \in Deltas :
       /\ Len(tr.added) < MaxCalls
       /\ score' = add(score, amount)
       /\ tr' = [added |-> Append(tr.added, amount), got |-> None]
       /\ UNCHANGED <<ds, scenes, gm, ev, timer, tm>>

TGetScore ==
    /\ tr' = [tr EXCEPT !.got = Some(get_score(score))]
    /\ UNCHANGED <<ds, score, scenes, gm, ev, timer, tm>>

NextTracker ==
    \/ TAdd
    \/ TGetScore

SpecTracker == InitTracker /\ [][NextTracker]_vars

----------------------------------------------------------------------------
(* What a step did, read from the state before it and the call recorded    *)
(* after it.                                                               *)

OnEntry == ~IsNone(ds.current_line)
Current == Val(ds.current_line)
OnChoice == OnEntry /\ LineType(Current) = "choice"
DSExhausted == ds.index >= Len(Lines)

JumpTo(t) == [Entry("scene_jump") EXCEPT !.target = t]

----------------------------------------------------------------------------
(* Claims *)

\* C1: in a game driven by GameManager, a step that applies an option of the
\* current choice raises the playthrough's score by exactly that option's
\* points, and every other step leaves the score as it was.
C1_ScoreFollowsChoices ==
    [][ IF ev'.applied # <<>>
        THEN score' = score + Current.choices[ev'.applied[1] + 1].points
        ELSE score' = score ]_vars

\* C2: once a scene_jump entry is the current entry of the manager's
\* DialogueSystem, the engine walks its script no further: the only way on
\* is the load of the scene the jump names.
C2_SceneJumpLoadsTarget ==
    [][ (gm.active /\ OnEntry /\ Current.type = "scene_jump")
        => \/ (ds'.index = ds.index /\ ds'.dialogue_lines = ds.dialogue_lines)
           \/ (gm'.current_scene # gm.current_scene
                 /\ scenes'[gm'.current_scene].id = Current.target) ]_vars

\* C3: an active GameManager whose DialogueSystem is exhausted does not stay
\* so for ever under continued update calls: it loads another scene or
\* becomes inactive.
C3_ExhaustedSceneAdvances ==
    (gm.active /\ DSExhausted) ~> (~gm.active \/ ~DSExhausted)

\* C4: an update that expires the timer of a choice on which nothing was
\* selected applies option 0 exactly once, raises nothing and moves the
\* cursor on by exactly one entry.
C4_ExpiryAppliesDefaultOnce ==
    [][ ( /\ ev'.op = "update"
          /\ OnChoice
          /\ Current.choices # <<>>
          /\ ~IsNone(ds.choice_timer)
          /\ Val(ds.choice_timer).active
          /\ Val(ds.choice_timer).duration > 0
          /\ Val(ds.choice_timer).time_left - ev'.arg <= 0
          /\ IsNone(ds.selected_choice) )
        => ( /\ ev'.raised = ""
             /\ ev'.applied = <<0>>
             /\ ds'.index = ds.index + 1 ) ]_vars

\* C5: with a tracker attached, applying an option that has target_positive and
\* target_negative and no target inserts, right after the cursor, a scene_jump
\* to target_positive when the score is >= 0 and to target_negative when < 0.
C5_ConditionalTargetBySign ==
    [][ ( /\ ds.relationship
          /\ ev'.applied # <<>>
          /\ Current.choices[ev'.applied[1] + 1].target = "absent"
          /\ Current.choices[ev'.applied[1] + 1].target_positive # "absent"
          /\ Current.choices[ev'.applied[1] + 1].target_negative # "absent" )
        => Lines' = ListInsert(Lines, ds.index + 1,
                       JumpTo(IF score' >= 0
                              THEN Current.choices[ev'.applied[1] + 1].target_positive
                              ELSE Current.choices[ev'.applied[1] + 1].target_negative)) ]_vars

\* C6: while the current entry has an unrecognised type no call raises, and
\* an update, like a click, moves the cursor past the entry.
C6_UnknownTypeAdvances ==
    [][ (OnEntry /\ Current.type = "future_feature")
        => /\ ev'.raised = ""
           /\ (ev'.op \in {"update", "click"} => ds'.index = ds.index + 1) ]_vars

\* C7: the cursor stays within 0..len(dialogue_lines).
C7_CursorInRange == 0 <= ds.index /\ ds.index <= Len(Lines)

C7_Witness == ev.op = "click" /\ Len(Lines) > 0 /\ ds.index = Len(Lines)

\* The entries apply_choice inserts for an option, given the score it reads
Inserted(choice, rel_value) ==
    IF choice.target # "absent" THEN <<JumpTo(choice.target)>>
    ELSE IF choice.target_positive # "absent" /\ choice.target_negative # "absent"
    THEN <<JumpTo(IF rel_value >= 0 THEN choice.target_positive ELSE choice.target_negative)>>
    ELSE choice.branch

C9_ExpiresExactlyOnce ==
    [][ (timer.duration > 0 /\ tm.phase = "started" /\ tm'.phase = "started" /\ tm'.op = "update")
        => /\ tm'.ret = (tm.acc < timer.duration /\ tm'.acc >= timer.duration)
           /\ tm'.fired = IF tm'.acc >= timer.duration THEN 1 ELSE 0 ]_vars

C9_Witness ==
    /\ timer.duration > 0 /\ tm.phase = "started" /\ tm.op = "update"
    /\ tm.fired = 1 /\ tm.ret = FALSE /\ tm.acc > timer.duration

\* C10 as stated: the stored remaining time is within 0..duration.
C10_TimeLeftInRange == 0 <= timer.time_left /\ timer.time_left <= timer.duration

\* C10 amended: the stored remaining time never exceeds the duration and is
\* not negative while the timer runs; it drops below 0 only with the update
\* that expires the timer, and get_remaining() is within 0..duration.
C10_TimeLeftBounded ==
    /\ timer.time_left <= timer.duration
    /\ (timer.active => timer.time_left >= 0)
    /\ (timer.time_left < 0 => tm.fired >= 1)
    /\ 0 <= get_remaining(timer) /\ get_remaining(timer) <= timer.duration

C10_Witness == timer.time_left < 0 /\ ~timer.active /\ tm.op = "update"

\* The sum of a sequence of integers
RECURSIVE SumSeq(_)
SumSeq(q) == IF q = <<>> THEN 0 ELSE q[1] + SumSeq(Tail(q))

\* The score of a fresh tracker after add(q[p[1]]), add(q[p[2]]), ...
RECURSIVE AddAll(_, _, _)
AddAll(q, p, i) ==
    IF i = 0 THEN RelationshipTracker ELSE add(AddAll(q, p, i - 1), q[p[i]])

Orders(n) == {p \in [1..n -> 1..n] : \A i, j \in 1..n : p[i] = p[j] => i = j}

\* C11: after any sequence of add calls on a fresh tracker, get_score() is the
\* exact sum of the amounts added, and it is what the same calls made in any
\* other order would give.
C11_ScoreIsSumOfDeltas ==
    ~IsNone(tr.got) =>
        /\ Val(tr.got) = SumSeq(tr.added)
        /\ \A p \in Orders(Len(tr.added)) :
               get_score(AddAll(tr.added, p, Len(tr.added))) = Val(tr.got)

C11_Witness ==
    /\ ~IsNone(tr.got) /\ Len(tr.added) = MaxCalls
    /\ Val(tr.got) = MaxCalls * MaxDelta
    /\ Val(tr.got) > 3

\* C12: the manager is inactive exactly when current_scene_index has reached
\* len(scenes); the index never decreases and never exceeds len(scenes); an
\* inactive manager stays inactive, and its update changes nothing.
C12_InactiveIffPastLastScene ==
    /\ [](gm.active <=> gm.current_scene_index < Len(scenes))
    /\ [](gm.current_scene_index <= Len(scenes))
    /\ [][ /\ gm'.current_scene_index >= gm.current_scene_index
           /\ (~gm.active => ~gm'.active)
           /\ (~gm.active /\ ev'.op = "update")
                 => (gm' = gm /\ ds' = ds /\ scenes' = scenes /\ score' = score) ]_vars

C12_Witness ==
    /\ ~gm.active /\ gm.current_scene_index = Len(scenes)
    /\ Len(scenes) > 1 /\ ev.op = "update"

\* Whether an option's lock condition holds for the score handle_click reads
Locked(choice) ==
    /\ choice.lock_condition # ""
    /\ evaluate_condition(choice.lock_condition, IF ds.relationship THEN get_score(score) ELSE 0)

\* C13: no step applies an option of the current choice whose lock condition
\* is true for the current score.
C13_LockedOptionNeverApplied ==
    [][ \A k \in 1..Len(ev'.applied) : ~Locked(Current.choices[ev'.applied[k] + 1]) ]_vars

\* C14: click_choice(i) on a choice with i outside 0..len(choices)-1 raises
\* nothing and leaves the score, the list and the cursor as they were.
C14_OutOfRangeIndexIsNoOp ==
    [][ ( /\ ev'.op = "click_choice"
          /\ OnChoice
          /\ (ev'.arg < 0 \/ ev'.arg >= Len(Current.choices)) )
        => ( /\ ev'.raised = ""
             /\ score' = score
             /\ Lines' = Lines
             /\ ds'.index = ds.index
             /\ ds'.current_line = ds.current_line ) ]_vars

\* C15: with a tracker attached, a selection on the current choice (a click on
\* it, click_choice with a valid index, or an update) raises nothing, and when
\* it applies an option the cursor moves past the choice.
C15_SelectionNeverRaises ==
    [][ ( /\ ds.relationship
          /\ OnChoice
          /\ ev'.op \in {"click", "handle_click", "click_choice", "update"}
          /\ (ev'.op = "click_choice" => ev'.arg \in 0..(Len(Current.choices) - 1)) )
        => ( /\ ev'.raised = ""
             /\ (ev'.applied # <<>> => ds'.index = ds.index + 1) ) ]_vars

\* The world with the lock condition of option i of the current choice removed
Unlock(w, i) ==
    [w EXCEPT !.current_line = Some([Val(@) EXCEPT !.choices[i + 1].lock_condition = ""])]

\* C16: where a click on the current choice lands on an option whose lock
\* condition is evaluated and cannot be (handle_click reaches the evaluation
\* only with no tracker attached, and reads the score as 0), nothing is
\* raised, the option is applied, and the step is exactly the one the same
\* click makes when the option has no lock condition.
C16_MalformedLockFailsOpen ==
    [][ ( /\ ev'.op \in {"click", "handle_click"}
          /\ OnChoice
          /\ ~ds.relationship
          /\ (ev'.op = "click" => ~ds.image_screen_active)
          /\ ~IsNone(HitRow(Current.choices, ev'.arg))
          /\ LET opt == Current.choices[Val(HitRow(Current.choices, ev'.arg)) + 1]
             IN opt.lock_condition # "" /\ eval(opt.lock_condition, 0).raised )
        => LET i == Val(HitRow(Current.choices, ev'.arg))
               r == handle_click(Unlock(World, i), ev'.arg)
           IN /\ ev'.raised = ""
              /\ ev'.applied = <<i>>
              /\ ds'.index = ds.index + 1
              /\ ds' = DSOf(r)
              /\ scenes' = HeapOf(scenes, r)
              /\ score' = r.score
              /\ ev'.raised = r.raised
              /\ ev'.applied = r.applied ]_vars

C16_Witness ==
    /\ ev.op = "click" /\ ev.raised = "" /\ ev.applied = <<2>>
    /\ ~ds.relationship
    /\ OnEntry /\ Current = Line("Partner", "b3")
    /\ Lines[ds.index] = ScriptC[3]

C18_CommandAppliedBeforePassing ==
    [][ ( /\ OnEntry
          /\ Current.command \in {"show", "hide"}
          /\ (ds'.index # ds.index \/ ds'.dialogue_lines # ds.dialogue_lines) )
        => ( /\ ~IsNone(ds'.visible_characters)
             /\ Val(ds'.visible_characters)[Current.target] = (Current.command = "show") ) ]_vars

\* C19: a step that moves the cursor off a choice applies exactly one of its
\* options.
C19_ChoiceLeftOnlyByResolution ==
    [][ (OnChoice /\ ds'.index # ds.index) => Len(ev'.applied) = 1 ]_vars

\* C20: a choice timer is held only while the current entry is a choice with a
\* timer field, and it is the timer made for that entry.
C20_TimerOnlyOnItsChoice ==
    ~IsNone(ds.choice_timer)
        => /\ OnChoice
           /\ Current.hasTimer
           /\ Val(ds.choice_timer).duration = Current.timer

C22_MusicFollowsScene ==
    scenes[gm.current_scene].background_music # ""
        => gm.current_music = Some(scenes[gm.current_scene].background_music)

\* current_line is the entry under the cursor, or None past the end of the list
Consistent ==
    ds.current_line = IF ds.index < Len(Lines) THEN Some(Lines[ds.index + 1]) ELSE None

\* The step is a call of update(dt) made while the mixer is busy / is not
UpdateStep(dt, busy) ==
    \E w \in {update(World, dt, busy)} : DSCommit("update", dt, w)

\* C23: while the current entry is a line or narration that waits, an update
\* made while no voice plays moves the cursor on by exactly one entry and
\* enters the entry there, an update made while a voice plays changes nothing,
\* and a click moves the cursor on by exactly one entry and enters it.
C23_LineAdvancesWhenVoiceEnds ==
    [][ ( /\ OnEntry
          /\ LineType(Current) \in {"line", "narration"}
          /\ ds.waiting )
        => /\ \A dt \in Dts :
                /\ UpdateStep(dt, FALSE)
                      => (ds'.index = ds.index + 1 /\ Consistent' /\ Lines' = Lines /\ ev'.raised = "")
                /\ UpdateStep(dt, TRUE)
                      => (ds' = ds /\ scenes' = scenes /\ score' = score /\ ev'.raised = "")
           /\ ev'.op = "click"
                => (ds'.index = ds.index + 1 /\ Consistent' /\ Lines' = Lines /\ ev'.raised = "") ]_vars

\* An update found a voice line finished and entered the next entry
C23_Witness ==
    /\ ev.op = "update" /\ ds.index = 1 /\ Lines = ScriptB
    /\ OnChoice /\ ds.name_map.Player = "Vera"

OnImageScreen == OnEntry /\ Current.type = "image_screen"

\* C24: while an image screen is shown, a click clears the image state, moves
\* the cursor on by exactly one entry and enters the entry there, and every
\* other call (update and draw among them) leaves the cursor where it is and
\* the image screen shown.
C24_ImageScreenWaitsForClick ==
    [][ ds.image_screen_active
        => IF ev'.op = "click"
           THEN /\ ds'.index = ds.index + 1
                /\ Consistent'
                /\ ev'.raised = ""
                /\ (ds'.image_screen_active <=> OnImageScreen')
                /\ (~ds'.image_screen_active => IsNone(ds'.image_screen_surface))
           ELSE /\ ds'.index = ds.index
                /\ ds'.image_screen_active
                /\ ds'.current_line = ds.current_line ]_vars

\* The image screen of the script was shown for some frames and a click
\* dismissed it
C24_Witness ==
    /\ ev.op = "click" /\ ds.index > 0
    /\ Lines[ds.index].type = "image_screen"
    /\ OnChoice
    /\ ~ds.image_screen_active /\ IsNone(ds.image_screen_surface)
    /\ ~IsNone(ds.visible_characters)

\* C25: an update of a timer that is not running (never started, reset, or
\* expired) returns False and leaves the timer as it was; a reset leaves the
\* timer not running, so no update after it reports an expiry.
C25_IdleTimerIgnoresUpdate ==
    [][ /\ (~timer.active /\ tm'.op = "update") => (tm'.ret = FALSE /\ timer' = timer)
        /\ tm'.op = "reset" => (~timer'.active /\ timer'.time_left = timer.duration) ]_vars

\* A timer that was reset was then given time, and reported nothing
C25_Witness ==
    /\ tm.phase = "reset" /\ tm.op = "update" /\ tm.acc > 0
    /\ tm.fired = 0 /\ tm.ret = FALSE
    /\ ~timer.active /\ timer.time_left = timer.duration

\* C26: in a game driven by GameManager, no step changes the dialogue list of
\* any Scene object.
C26_SceneDialogueUntouched ==
    [][ \A k \in 1..Len(scenes) : scenes'[k].dialogue = scenes[k].dialogue ]_vars

\* C27: start_line leaves current_line the entry under the cursor (None past
\* the end of the list), and from then on every call keeps it so.
C27_CurrentLineFollowsCursor ==
    [][ (ev'.op = "start_line" \/ Consistent) => Consistent' ]_vars

\* A choice was made in the middle of a script: the list grew behind the
\* cursor and the cursor is on the first inserted entry
C27_Witness ==
    /\ Consistent /\ ev.applied # <<>> /\ ev.raised = ""
    /\ OnEntry /\ Len(Lines) > Len(ScriptB) /\ ds.index = 2

\* C28: image_screen_active is set only while the current entry is an
\* image_screen entry.
C28_ImageFlagOnlyOnImageEntry == ds.image_screen_active => OnImageScreen

\* The image screen is up, and frames have been drawn and updated on it
C28_Witness ==
    /\ ds.image_screen_active /\ OnImageScreen
    /\ ev.op \in {"update", "draw"} /\ ds.index = 1

====
